---- MODULE Spec2Model ----
(***************************************************************************)
(* Model of explosions.py: the launch / refresh / update handlers of the   *)
(* ball explosion simulation, with the particle physics they run.          *)
(*                                                                         *)
(* Numbers.  The program computes in Python floats.  The model carries     *)
(* every coordinate and velocity on a fixed grid of 1/Scale pixel; sums    *)
(* are exact and each product or quotient is rounded to the nearest grid   *)
(* point, as a float operation is rounded to the nearest float.            *)
(*                                                                         *)
(* Randomness.  create_explosion draws an angle and a speed per particle.  *)
(* The model draws them from the tables Directions and SpeedTenths; the    *)
(* k-th draw of an update is selected by a generator number (seed) that    *)
(* the update action chooses nondeterministically.  The colour of a ball   *)
(* is display-only and is left out.                                        *)
(***************************************************************************)
EXTENDS Integers, Sequences, FiniteSets, TLC

VARIABLES
    balls,            \* list of active main balls            (line 25)
    explosion_balls,  \* list of explosion particles          (line 26)
    velocity,         \* velocity of the most recent launch   (line 24)
    op,               \* history: the handler that ran last and its input
    pre,              \* history: balls, explosion_balls, velocity before it
    mid,              \* history: what the last update did on the way
    nsteps,           \* history: number of updates run
    nlaunch           \* history: number of balls created (object identity)

vars == <<balls, explosion_balls, velocity, op, pre, mid, nsteps, nlaunch>>

----------------------------------------------------------------------------
(* Bounds of the model *)

Res == 2                  \* grid points per tenth of a pixel
MaxSteps == 13            \* updates in a behaviour of Spec
MaxLaunches == 2          \* launches in a behaviour of Spec
NumSeeds == 2             \* random generators an update chooses from

Scale == 10 * Res         \* grid points per pixel
Seeds == 0 .. (NumSeeds - 1)

----------------------------------------------------------------------------
(* Program constants, in grid units *)

BALL_RADIUS == 10 * Scale
EXPLOSION_BALL_RADIUS == 5 * Scale
GRAVITY == Scale \div 2
BOUNCE_FACTOR == [num |-> 7, den |-> 10]
WIDTH == 500 * Scale
HEIGHT == 500 * Scale
REST == Scale \div 10
SPAWN == [x |-> 50 * Scale, y |-> 250 * Scale]

----------------------------------------------------------------------------
(* Arithmetic on the grid *)

Abs(n) == IF n < 0 THEN -n ELSE n

\* the element of a singleton set; binding a value in a set constructor
\* evaluates it once, where a LET is evaluated at each of its uses
The(S) == CHOOSE r \in S : TRUE

\* a / b rounded to the nearest integer, b > 0
RoundDiv(a, b) ==
    IF a >= 0 THEN (2 * a + b) \div (2 * b)
              ELSE -((2 * (-a) + b) \div (2 * b))

\* faulty variant: the velocity is reversed but not damped
Bounce_undamped(v) == -v

\* v *= -BOUNCE_FACTOR
Bounce(v) == -RoundDiv(v * BOUNCE_FACTOR.num, BOUNCE_FACTOR.den)

----------------------------------------------------------------------------
(* class Ball *)

\* Ball.__init__; id stands for the identity of the Python object
Ball(id, x, y, dx, dy, radius) ==
    [id |-> id, x |-> x, y |-> y, dx |-> dx, dy |-> dy, radius |-> radius]

\* Ball.move: position by the current velocity, then gravity on dy
move(b) ==
    [b EXCEPT !.x = b.x + b.dx, !.y = b.y + b.dy, !.dy = b.dy + GRAVITY]

----------------------------------------------------------------------------
(* Wall handling of update() *)

\* the right-wall branch: clamp x, reverse and damp dx
hit_right(b) == [b EXCEPT !.x = WIDTH - b.radius, !.dx = Bounce(b.dx)]

\* the left-wall branch
hit_left(b) == [b EXCEPT !.x = b.radius, !.dx = Bounce(b.dx)]

\* faulty variant: the centre, not the rim, is kept inside the floor line
walls_y_centre(b) ==
    IF b.y + b.radius > HEIGHT
    THEN [b EXCEPT !.y = HEIGHT, !.dy = Bounce(b.dy)]
    ELSE IF b.y - b.radius < 0
         THEN [b EXCEPT !.y = b.radius, !.dy = Bounce(b.dy)]
         ELSE b

\* "if ... Bottom wall ... elif ... Top wall", the same for balls and particles
walls_y(b) ==
    IF b.y + b.radius > HEIGHT
    THEN [b EXCEPT !.y = HEIGHT - b.radius, !.dy = Bounce(b.dy)]
    ELSE IF b.y - b.radius < 0
         THEN [b EXCEPT !.y = b.radius, !.dy = Bounce(b.dy)]
         ELSE b

\* "if ... > 500 ... elif ... < 0" of the particle loop
walls_x(b) ==
    IF b.x + b.radius > WIDTH THEN hit_right(b)
    ELSE IF b.x - b.radius < 0 THEN hit_left(b)
    ELSE b

----------------------------------------------------------------------------
(* Collisions between particles *)

\* distance < r1 + r2; the square root is monotone, so squares are compared
check_collision(ball1, ball2) ==
    LET dx == ball1.x - ball2.x
        dy == ball1.y - ball2.y
        rr == ball1.radius + ball2.radius
    IN  dx * dx + dy * dy < rr * rr

\* faulty variant: the impulse is not halved
handle_collision_doubled(ball1, ball2) ==
    LET dx == ball1.x - ball2.x
        dy == ball1.y - ball2.y
        dist2 == dx * dx + dy * dy
        dvx == ball1.dx - ball2.dx
        dvy == ball1.dy - ball2.dy
        impulse == 2 * (dvx * dx + dvy * dy)
        ix == RoundDiv(impulse * dx, dist2)
        iy == RoundDiv(impulse * dy, dist2)
    IN  IF dist2 = 0
        THEN <<ball1, ball2>>
        ELSE << [ball1 EXCEPT !.dx = ball1.dx - ix, !.dy = ball1.dy - iy],
                [ball2 EXCEPT !.dx = ball2.dx + ix, !.dy = ball2.dy + iy] >>

\* The impulse along the normalised line of centres.  With n = d / |d| the
\* code subtracts ((dv . n) * 2 / 2) * n from ball1 and adds it to ball2;
\* that vector is ((dv . d) / |d|^2) * d, which is rounded to the grid once.
handle_collision(ball1, ball2) ==
    LET dx == ball1.x - ball2.x
        dy == ball1.y - ball2.y
        dist2 == dx * dx + dy * dy
        dvx == ball1.dx - ball2.dx
        dvy == ball1.dy - ball2.dy
        impulse == (2 * (dvx * dx + dvy * dy)) \div 2
        ix == RoundDiv(impulse * dx, dist2)
        iy == RoundDiv(impulse * dy, dist2)
    IN  IF dist2 = 0
        THEN <<ball1, ball2>>
        ELSE << [ball1 EXCEPT !.dx = ball1.dx - ix, !.dy = ball1.dy - iy],
                [ball2 EXCEPT !.dx = ball2.dx + ix, !.dy = ball2.dy + iy] >>

\* the body of the inner loop for the pair (i, j) of the list fs
collide_pair(fs, i, j) ==
    IF check_collision(fs[i], fs[j])
    THEN LET r == handle_collision(fs[i], fs[j])
         IN  [fs EXCEPT ![i] = r[1], ![j] = r[2]]
    ELSE fs

\* the inner loop: particle i against the particles lo .. hi, in that
\* order.  The range is halved, first half first, which keeps the order of
\* the pairs and the nesting of the evaluation shallow.
RECURSIVE collide_row(_, _, _, _)
collide_span(fs, i, lo, hi) ==
    IF lo > hi THEN fs
    ELSE IF lo = hi THEN collide_pair(fs, i, lo)
    ELSE collide_row(collide_row(fs, i, lo, (lo + hi) \div 2),
                     i, (lo + hi) \div 2 + 1, hi)

\* the list fs0 is evaluated once
collide_row(fs0, i, lo, hi) == The({collide_span(fs, i, lo, hi) : fs \in {fs0}})

\* the outer loop: the particles lo .. hi, in that order, each against the
\* particles after it in the list
RECURSIVE collide_from(_, _, _)
collide_outer(fs, lo, hi) ==
    IF lo > hi THEN fs
    ELSE IF lo = hi THEN collide_row(fs, lo, lo + 1, Len(fs))
    ELSE collide_from(collide_from(fs, lo, (lo + hi) \div 2),
                      (lo + hi) \div 2 + 1, hi)

\* the list fs0 is evaluated once
collide_from(fs0, lo, hi) == The({collide_outer(fs, lo, hi) : fs \in {fs0}})

collision_pass(fs) == collide_from(fs, 1, Len(fs))

----------------------------------------------------------------------------
(* create_explosion *)

\* (cos, sin) of the angles drawn, times 5; y grows downwards
Directions ==
    << <<3, 4>>, <<0, -5>>, <<5, 0>>, <<-3, 4>>,
       <<-5, 0>>, <<0, 5>>, <<-4, -3>>, <<4, -3>> >>

\* the speeds drawn from [0.2 v, 0.4 v], in tenths of v
SpeedTenths == <<3, 4, 2>>

\* the k-th draw of generator seed: (angle, speed)
Draw(seed, k) ==
    [dir |-> Directions[((seed + k) % Len(Directions)) + 1],
     tenths |-> SpeedTenths[((seed + 2 * k) % Len(SpeedTenths)) + 1]]

\* faulty variant: the count rounded to the nearest integer instead of truncated
num_particles_rounded(vel) == (vel + 1) \div 2

\* int(velocity / 2)
num_particles(vel) == vel \div 2

\* faulty variant: the coordinates of the explosion centre are swapped
create_explosion_swapped(x, y, vel, seed, base) ==
    [k \in 1 .. num_particles(vel) |->
        LET d == Draw(seed, base + k)
            speed == RoundDiv(vel * Scale * d.tenths, 10)
        IN  Ball(0, y, x,
                 RoundDiv(d.dir[1] * speed, 5), RoundDiv(d.dir[2] * speed, 5),
                 EXPLOSION_BALL_RADIUS)]

\* the particles appended for one explosion; base draws were made before
create_explosion(x, y, vel, seed, base) ==
    [k \in 1 .. num_particles(vel) |->
        LET d == Draw(seed, base + k)
            speed == RoundDiv(vel * Scale * d.tenths, 10)
        IN  Ball(0, x, y,
                 RoundDiv(d.dir[1] * speed, 5), RoundDiv(d.dir[2] * speed, 5),
                 EXPLOSION_BALL_RADIUS)]

----------------------------------------------------------------------------
(* update(): the frame handler *)

\* balls.remove(ball): the ball visited is at index i
remove(bs, i) == SubSeq(bs, 1, i - 1) \o SubSeq(bs, i + 1, Len(bs))

\* "for ball in balls": the list iterator visits index i of the list as it
\* is at that moment, then index i + 1, until i runs past the end.
\* st = [i, balls, explosion_balls, spawned, moved, hit]; spawned, moved and
\* hit record the particles created, the balls moved and the balls removed.
RECURSIVE main_loop(_, _, _)
main_visit(st, vel, seed) ==
    IF st.i > Len(st.balls) THEN st
    ELSE
        LET ball == move(st.balls[st.i])
        IN  IF ball.x + ball.radius > WIDTH
            THEN LET b1 == hit_right(ball)
                     new == create_explosion(b1.x, b1.y, vel, seed,
                                             Len(st.spawned))
                 IN  \* the removed ball still gets its y clamped: no effect
                     main_loop([i |-> st.i + 1,
                                balls |-> remove(st.balls, st.i),
                                explosion_balls |-> st.explosion_balls \o new,
                                spawned |-> st.spawned \o new,
                                moved |-> st.moved \cup {ball.id},
                                hit |-> st.hit \cup {ball.id}], vel, seed)
            ELSE LET b1 == IF ball.x - ball.radius < 0
                           THEN hit_left(ball) ELSE ball
                 IN  main_loop([st EXCEPT !.i = st.i + 1,
                                          !.balls[st.i] = walls_y(b1),
                                          !.moved = st.moved \cup {ball.id}],
                               vel, seed)

\* the iteration from the state st0 on; st0 is evaluated once per visit
main_loop(st0, vel, seed) == The({main_visit(st, vel, seed) : st \in {st0}})

\* "for ball in explosion_balls": move, then the four walls
particle_loop(fs) == [k \in DOMAIN fs |-> walls_y(walls_x(move(fs[k])))]

\* faulty variant: a particle is kept only while both components exceed the threshold
has_energy_both(b) == Abs(b.dx) > REST /\ Abs(b.dy) > REST

\* the test of the list comprehension that keeps a particle
has_energy(b) == Abs(b.dx) > REST \/ Abs(b.dy) > REST

prune(fs) == SelectSeq(fs, has_energy)

NoMid == [spawned |-> <<>>, moved |-> {}, hit |-> {},
          walled |-> <<>>, collided |-> <<>>]

\* one call of update() on (bs, fs) with velocity vel and generator seed:
\* the main ball loop (m), the particle loop (walled), the collision loops
\* (collided) and the pruning, each stage evaluated once
update(bs, fs, vel, seed) ==
    The({The({The({
        [balls |-> m.balls,
         explosion_balls |-> prune(collided),
         mid |-> [spawned |-> m.spawned, moved |-> m.moved, hit |-> m.hit,
                  walled |-> walled, collided |-> collided]]
        : collided \in {collision_pass(walled)}})
        : walled \in {particle_loop(m.explosion_balls)}})
        : m \in {main_loop([i |-> 1, balls |-> bs, explosion_balls |-> fs,
                            spawned |-> <<>>, moved |-> {}, hit |-> {}],
                           vel, seed)}})

----------------------------------------------------------------------------
(* The button and key handlers *)

\* the text of an integer consists of digits only iff it has no sign
validate_integer(v) == v >= 0

\* faulty variant: velocity assigned without the global declaration, so not recorded
throw_ball_stale(bs, vel, v, id) ==
    IF ~validate_integer(v)
    THEN [balls |-> bs, velocity |-> vel]
    ELSE [balls |-> Append(bs, Ball(id, SPAWN.x, SPAWN.y, v * Scale, 0,
                                    BALL_RADIUS)),
          velocity |-> vel]

\* throw_ball on the text of the integer v: the new (balls, velocity)
throw_ball(bs, vel, v, id) ==
    IF ~validate_integer(v)
    THEN [balls |-> bs, velocity |-> vel]
    ELSE [balls |-> Append(bs, Ball(id, SPAWN.x, SPAWN.y, v * Scale, 0,
                                    BALL_RADIUS)),
          velocity |-> v]

\* faulty variant: only the main balls are cleared
refresh_balls_only(bs, fs) == [balls |-> <<>>, explosion_balls |-> fs]

\* refresh_simulation: the new (balls, explosion_balls)
refresh_simulation(bs, fs) == [balls |-> <<>>, explosion_balls |-> <<>>]

----------------------------------------------------------------------------
(* The program as a state machine *)

Snapshot == [balls |-> balls, explosion_balls |-> explosion_balls,
             velocity |-> velocity]

Init ==
    /\ balls = <<>>
    /\ explosion_balls = <<>>
    /\ velocity = 0
    /\ op = [name |-> "init", arg |-> 0, after |-> "none"]
    /\ pre = [balls |-> <<>>, explosion_balls |-> <<>>, velocity |-> 0]
    /\ mid = NoMid
    /\ nsteps = 0
    /\ nlaunch = 0

\* the Throw button or the Return key with the text of v in the field
DoLaunch(v) ==
    LET r == throw_ball(balls, velocity, v, nlaunch + 1)
    IN  /\ balls' = r.balls
        /\ velocity' = r.velocity
        /\ UNCHANGED explosion_balls
        /\ op' = [name |-> "launch", arg |-> v, after |-> op.name]
        /\ pre' = Snapshot
        /\ mid' = NoMid
        /\ nlaunch' = nlaunch + 1
        /\ UNCHANGED nsteps

\* the Refresh button
DoReset ==
    LET r == refresh_simulation(balls, explosion_balls)
    IN  /\ balls' = r.balls
        /\ explosion_balls' = r.explosion_balls
        /\ UNCHANGED velocity
        /\ op' = [name |-> "reset", arg |-> 0, after |-> op.name]
        /\ pre' = Snapshot
        /\ mid' = NoMid
        /\ UNCHANGED <<nsteps, nlaunch>>

\* one timer tick: update() with the random generator seed
DoStep(seed) ==
    LET r == update(balls, explosion_balls, velocity, seed)
    IN  /\ balls' = r.balls
        /\ explosion_balls' = r.explosion_balls
        /\ UNCHANGED velocity
        /\ op' = [name |-> "step", arg |-> 0, after |-> op.name]
        /\ pre' = Snapshot
        /\ mid' = r.mid
        /\ UNCHANGED nlaunch

\* the texts typed in Spec: a signed number, 0, 1, a slow and a fast launch
Inputs == {-1, 0, 1, 3, 40}

\* the frames before which Spec lets a text be entered: before and after the
\* first update, and around the frame in which a ball of velocity 40 that
\* was launched at the start meets the right wall
LaunchTimes == {0, 1, 11, 12}

Launch == \E v \in Inputs :
              /\ nlaunch < MaxLaunches
              /\ nsteps \in LaunchTimes
              /\ DoLaunch(v)

Reset == DoReset

\* the generators that can differ in this update: one when nothing is drawn
SeedsNow ==
    IF num_particles(velocity) > 0
       /\ \E i \in DOMAIN balls :
              move(balls[i]).x + balls[i].radius > WIDTH
    THEN Seeds ELSE {0}

Step == \E seed \in SeedsNow :
            /\ nsteps < MaxSteps
            /\ DoStep(seed)
            /\ nsteps' = nsteps + 1

Next == Launch \/ Reset \/ Step

Spec == Init /\ [][Next]_vars

----------------------------------------------------------------------------
(* Properties of Spec *)

Ids(bs) == {bs[i].id : i \in DOMAIN bs}

Range(bs) == {bs[i] : i \in DOMAIN bs}

\* the same ball but for its identity
SameBall(a, b) ==
    /\ a.x = b.x /\ a.y = b.y /\ a.dx = b.dx /\ a.dy = b.dy
    /\ a.radius = b.radius

\* the main balls the last update moved beyond the right wall
HitBalls ==
    {i \in DOMAIN pre.balls :
        /\ pre.balls[i].id \in mid.moved
        /\ move(pre.balls[i]).x + pre.balls[i].radius > WIDTH}

C4_LaunchAppendsOne ==
    (op.name = "launch" /\ op.arg >= 0) =>
        /\ Len(balls) = Len(pre.balls) + 1
        /\ SubSeq(balls, 1, Len(pre.balls)) = pre.balls
        /\ SameBall(balls[Len(balls)],
                    [x |-> 50 * Scale, y |-> 250 * Scale,
                     dx |-> op.arg * Scale, dy |-> 0, radius |-> 10 * Scale])
        /\ balls[Len(balls)].id \notin Ids(pre.balls)
        /\ velocity = op.arg
        /\ explosion_balls = pre.explosion_balls

\* a launch at another velocity while particles of an explosion are around
C4_Witness ==
    /\ op.name = "launch"
    /\ op.arg >= 0
    /\ op.arg # pre.velocity
    /\ pre.explosion_balls # <<>>

C5_Kept(b) == Abs(b.dx) * 10 > Scale \/ Abs(b.dy) * 10 > Scale

\* C5: after an update, explosion_balls holds, in their order, exactly the
\* particles left by the collision pass with |dx| > 0.1 or |dy| > 0.1; so
\* no particle with both components at or below 0.1 is present between
\* two updates.
C5_Pruning ==
    /\ op.name = "step" =>
           explosion_balls = SelectSeq(mid.collided, C5_Kept)
    /\ \A i \in DOMAIN explosion_balls : C5_Kept(explosion_balls[i])

\* an update whose pruning removes a particle that the collision pass left
C5_Witness ==
    /\ op.name = "step"
    /\ Len(explosion_balls) < Len(mid.collided)

\* C6: a refresh leaves balls and explosion_balls empty, and so does an
\* update that directly follows it.
C6_ResetEmpties ==
    /\ op.name = "reset" => (balls = <<>> /\ explosion_balls = <<>>)
    /\ (op.name = "step" /\ op.after = "reset") =>
           (balls = <<>> /\ explosion_balls = <<>>)

\* a refresh with a ball in flight and particles of an explosion around
C6_Witness ==
    /\ op.name = "reset"
    /\ pre.balls # <<>>
    /\ pre.explosion_balls # <<>>

\* the update touched no wall with the moved ball m
NoWall(m) ==
    /\ m.x + m.radius <= WIDTH /\ m.x - m.radius >= 0
    /\ m.y + m.radius <= HEIGHT /\ m.y - m.radius >= 0

\* C7: an update integrates every main ball of the list once: a ball that
\* touches no wall has afterwards advanced by its velocity, with dy raised
\* by GRAVITY and dx unchanged, also when a ball before it in the list was
\* removed at the right wall in the same update.
C7_EveryBallIntegrated ==
    op.name = "step" =>
        \A i \in DOMAIN pre.balls :
            LET b == pre.balls[i]
                m == [b EXCEPT !.x = b.x + b.dx, !.y = b.y + b.dy,
                               !.dy = b.dy + GRAVITY]
            IN  NoWall(m) => \E j \in DOMAIN balls : balls[j] = m

----------------------------------------------------------------------------
(* SpecRun: one launch after a refresh, followed over a long run of frames *)

MaxRunSteps == 42         \* updates in a behaviour of SpecRun
NumRunSeeds == 2          \* random generators an update of SpecRun draws from

\* a ball that stays at x = 50, one that meets the right wall and the floor
\* in the same frame, and two that burst in mid-air
RunInputs == {0, 14, 40, 48}

RunReset == op.name = "init" /\ DoReset

RunLaunch == \E v \in RunInputs : op.name = "reset" /\ DoLaunch(v)

RunStep == \E seed \in SeedsNow \cap (0 .. (NumRunSeeds - 1)) :
               /\ op.name \in {"launch", "step"}
               /\ nsteps < MaxRunSteps
               /\ DoStep(seed)
               /\ nsteps' = nsteps + 1

NextRun == RunReset \/ RunLaunch \/ RunStep

SpecRun == Init /\ [][NextRun]_vars

----------------------------------------------------------------------------
(* Properties of SpecRun *)

InBounds(b) ==
    /\ b.x - b.radius >= 0 /\ b.x + b.radius <= 500 * Scale
    /\ b.y - b.radius >= 0 /\ b.y + b.radius <= 500 * Scale

\* C1: at the end of every update each main ball and each particle lies
\* within the canvas: x - radius >= 0, x + radius <= 500, and so for y.
C1_WallContainment ==
    op.name = "step" =>
        /\ \A i \in DOMAIN balls : InBounds(balls[i])
        /\ \A i \in DOMAIN explosion_balls : InBounds(explosion_balls[i])

\* particles created with their rim below the floor line are contained
\* at the end of the update that created them
C1_Witness ==
    /\ op.name = "step"
    /\ explosion_balls # <<>>
    /\ \E i \in DOMAIN mid.spawned :
           mid.spawned[i].y + mid.spawned[i].radius > HEIGHT

ClampTo(v, lo, hi) == IF v < lo THEN lo ELSE IF v > hi THEN hi ELSE v

\* the update in which the ball launched at 40 left the list of balls
C3_Scenario ==
    /\ op.name = "step"
    /\ velocity = 40
    /\ pre.balls # <<>>
    /\ balls = <<>>

\* C3 as claimed: at the end of that update there are exactly 20 particles
\* and each is at the clamped impact point.
C3_FragmentsAtImpactPoint ==
    C3_Scenario =>
        LET m == move(pre.balls[1])
        IN  /\ Len(explosion_balls) = 20
            /\ \A i \in DOMAIN explosion_balls :
                   /\ explosion_balls[i].x = WIDTH - BALL_RADIUS
                   /\ explosion_balls[i].y =
                          ClampTo(m.y, BALL_RADIUS, HEIGHT - BALL_RADIUS)

\* C3 as amended: in that update exactly 20 particles are created at
\* (500 - 10, y of the ball at impact) and moved once: each is at the impact
\* point advanced by its own initial velocity and clamped into the canvas
\* for the particle radius; explosion_balls holds those of them that pass
\* the pruning test of the update.
C3_FragmentsOneStepFromImpact ==
    C3_Scenario =>
        LET m == move(pre.balls[1])
            lo == EXPLOSION_BALL_RADIUS
        IN  /\ Len(mid.spawned) = 20
            /\ Len(mid.collided) = 20
            /\ \A i \in DOMAIN mid.spawned :
                   LET f == mid.spawned[i]
                   IN  /\ f.x = WIDTH - BALL_RADIUS
                       /\ f.y = m.y
                       /\ mid.collided[i].x =
                              ClampTo(f.x + f.dx, lo, WIDTH - lo)
                       /\ mid.collided[i].y =
                              ClampTo(f.y + f.dy, lo, HEIGHT - lo)
            /\ explosion_balls = SelectSeq(mid.collided, C5_Kept)

\* the 20 particles at the end of that update, none at the impact point
C3_Witness ==
    /\ C3_Scenario
    /\ Len(explosion_balls) = 20
    /\ \A i \in DOMAIN explosion_balls :
           \/ explosion_balls[i].x # WIDTH - BALL_RADIUS
           \/ explosion_balls[i].y # move(pre.balls[1]).y

\* the particles the particle loop of the last update moved
Entering == pre.explosion_balls \o mid.spawned

HitX(m) == m.x + m.radius > WIDTH \/ m.x - m.radius < 0
HitY(m) == m.y + m.radius > HEIGHT \/ m.y - m.radius < 0

\* out is the reverse of in, damped by BOUNCE_FACTOR, to the grid
DampedFrom(out, in) ==
    /\ out * in <= 0
    /\ 10 * Abs(out) - 7 * Abs(in) <= 5
    /\ 7 * Abs(in) - 10 * Abs(out) <= 5

\* the main balls that the last update moved and kept: <<before, after>>
MovedBalls ==
    {pq \in Range(pre.balls) \X Range(balls) :
        pq[1].id = pq[2].id /\ pq[1].id \in mid.moved}

----------------------------------------------------------------------------
(* SpecCollide: the collision pass on two particles drawn from bounded sets *)

MaxCollides == 2          \* collision passes in a behaviour of SpecCollide

\* the second particle's centre relative to the first, in pixels: on top of
\* it, overlapping it along an axis and obliquely, touching it, apart
Offsets == { <<0, 0>>, <<6, 0>>, <<0, -8>>, <<3, 4>>, <<-7, 2>>,
             <<10, 0>>, <<12, 5>> }

\* particle velocities, in tenths of a pixel per frame
Velocities == { <<0, 12>>, <<-31, 5>>, <<47, -20>>, <<9, 9>> }

Particle(x, y, v) ==
    Ball(0, x * Scale, y * Scale, v[1] * Res, v[2] * Res,
         EXPLOSION_BALL_RADIUS)

InitCollide ==
    /\ balls = <<>>
    /\ velocity = 40
    /\ \E o \in Offsets, v1 \in Velocities, v2 \in Velocities :
           explosion_balls = << Particle(300, 200, v1),
                                Particle(300 + o[1], 200 + o[2], v2) >>
    /\ op = [name |-> "init", arg |-> 0, after |-> "none"]
    /\ pre = [balls |-> <<>>, explosion_balls |-> <<>>, velocity |-> 40]
    /\ mid = NoMid
    /\ nsteps = 0
    /\ nlaunch = 0

\* lines 304-308 of update() alone
Collide ==
    /\ nsteps < MaxCollides
    /\ explosion_balls' = collision_pass(explosion_balls)
    /\ op' = [name |-> "collide", arg |-> 0, after |-> op.name]
    /\ pre' = Snapshot
    /\ mid' = NoMid
    /\ nsteps' = nsteps + 1
    /\ UNCHANGED <<balls, velocity, nlaunch>>

SpecCollide == InitCollide /\ [][Collide]_vars

\* the component of the velocity of b along (dx, dy), times |(dx, dy)|
Along(b, dx, dy) == b.dx * dx + b.dy * dy

\* C9: for two overlapping particles with distinct centres the collision
\* handling exchanges the velocity components along the line of centres,
\* keeps the components across it, moves neither particle and keeps the
\* sum of the two velocities; with coinciding centres it changes nothing.
\* Components are compared to the rounding of the grid: half a unit each
\* in x and in y.
C9_CollisionExchange ==
    op.name = "collide" =>
        LET a == pre.explosion_balls[1]
            b == pre.explosion_balls[2]
            a2 == explosion_balls[1]
            b2 == explosion_balls[2]
            dx == a.x - b.x
            dy == a.y - b.y
            tol == Abs(dx) + Abs(dy)
            overlap == dx * dx + dy * dy < (a.radius + b.radius) ^ 2
        IN  /\ (dx = 0 /\ dy = 0) => explosion_balls = pre.explosion_balls
            /\ (overlap /\ ~(dx = 0 /\ dy = 0)) =>
                   /\ a2.x = a.x /\ a2.y = a.y /\ b2.x = b.x /\ b2.y = b.y
                   /\ a2.dx + b2.dx = a.dx + b.dx
                   /\ a2.dy + b2.dy = a.dy + b.dy
                   /\ 2 * Abs(Along(a2, dx, dy) - Along(b, dx, dy)) <= tol
                   /\ 2 * Abs(Along(b2, dx, dy) - Along(a, dx, dy)) <= tol
                   /\ 2 * Abs(Along(a2, -dy, dx) - Along(a, -dy, dx)) <= tol
                   /\ 2 * Abs(Along(b2, -dy, dx) - Along(b, -dy, dx)) <= tol

\* an oblique collision that changes both velocities
C9_Witness ==
    /\ op.name = "collide"
    /\ pre.explosion_balls[1].x # pre.explosion_balls[2].x
    /\ pre.explosion_balls[1].y # pre.explosion_balls[2].y
    /\ explosion_balls[1].dx # pre.explosion_balls[1].dx
    /\ explosion_balls[2].dy # pre.explosion_balls[2].dy

----------------------------------------------------------------------------
(* SpecLive: launches, then the timer alone.  update() re-arms its timer   *)
(* at its end (line 315), so an update that can change the state is taken. *)

MaxLiveLaunches == 2      \* launches in a behaviour of SpecLive

\* the text typed in SpecLive: a slow ball, whose explosion is one particle
LiveInputs == {2}

\* the generators of SpecLive: both send that particle straight down, at
\* 0.3 and at 0.4 of the launch velocity
LiveSeeds == {4, 20}

\* the launches of SpecLive come before the first update
LiveLaunch == \E v \in LiveInputs :
                  /\ nlaunch < MaxLiveLaunches
                  /\ op.name # "step"
                  /\ DoLaunch(v)

LiveStep == \E seed \in (IF SeedsNow = {0} THEN {0} ELSE LiveSeeds) :
                DoStep(seed) /\ UNCHANGED nsteps

NextLive == LiveLaunch \/ LiveStep

SpecLive == Init /\ [][NextLive]_vars /\ WF_vars(LiveStep)

\* C10: once no more launch occurs and updates keep running, every
\* particle is pruned after finitely many updates: explosion_balls becomes
\* empty and stays empty.
C10_EventuallyPruned == <>[](explosion_balls = <<>>)

====
